---- MODULE Spec2Model ----
(***************************************************************************)
(* A model of go-heroicons: the build-time Generator, the provider it     *)
(* generates (the text of providerTemplate) and the runtime library        *)
(* (heroicons.go).                                                         *)
(*                                                                         *)
(* Go strings are TLA+ strings; TLC evaluates Len, \o and SubSeq on them,  *)
(* so strings.Contains, strings.Replace, fmt.Sprintf and filepath.Join are *)
(* computed character by character as the Go library computes them.        *)
(* Positions are 1-based; 0 stands for Go's "not found" (-1).              *)
(***************************************************************************)
EXTENDS Integers, Sequences, FiniteSets, TLC

VARIABLES
    fs,         \* the file system: cleaned path -> [kind, data]
    before,     \* the file system when the most recent Generate call began
    g,          \* the Generator struct of the most recent Generate call
    returned,   \* what that Generate call returned ("" is nil)
    stdout,     \* the keys Generate reported missing on its last call
    providerGo, \* the content of <OutputPath>/provider.go, field by field
    rendered,   \* the generated provider's last RenderIcon call and result
    provider,   \* heroicons.go: var provider IconProvider
    initLog,    \* the arguments of the Initialize calls so far
    getIconCalls, \* the number of GetIcon calls made on providers so far
    lastCall    \* the library's last RenderIcon call and result

genVars == <<fs, before, g, returned, stdout, providerGo>>
libVars == <<provider, initLog, getIconCalls, lastCall>>
vars == <<fs, before, g, returned, stdout, providerGo, rendered,
          provider, initLog, getIconCalls, lastCall>>

----------------------------------------------------------------------------
(* Strings.                                                                *)

\* Whether sub occurs in s at position i.
MatchAt(s, sub, i) ==
    /\ i >= 1
    /\ i + Len(sub) - 1 <= Len(s)
    /\ SubSeq(s, i, i + Len(sub) - 1) = sub

\* The positions at which sub occurs in s.
Occurrences(s, sub) == {i \in 1..Len(s) : MatchAt(s, sub, i)}

\* strings.Index: the position of the first occurrence of sub in s, 0 if none.
Index(s, sub) ==
    LET hits == Occurrences(s, sub)
    IN  IF hits = {} THEN 0 ELSE CHOOSE i \in hits : \A j \in hits : i <= j

\* strings.LastIndex.
LastIndex(s, sub) ==
    LET hits == Occurrences(s, sub)
    IN  IF hits = {} THEN 0 ELSE CHOOSE i \in hits : \A j \in hits : i >= j

\* strings.HasSuffix.
HasSuffix(s, suffix) ==
    Len(s) >= Len(suffix) /\ MatchAt(s, suffix, Len(s) - Len(suffix) + 1)

\* strings.Contains.
Contains(s, sub) == Index(s, sub) # 0

\* strings.Replace(s, old, new, 1) for a non-empty old.
ReplaceFirst(s, old, new) ==
    LET i == Index(s, old)
    IN  IF i = 0 THEN s
        ELSE SubSeq(s, 1, i - 1) \o new \o SubSeq(s, i + Len(old), Len(s))

\* The elements of s that start at position from, seps being the positions
\* of the separators at or after from.
RECURSIVE ElementsFrom(_, _, _)
ElementsFrom(s, from, seps) ==
    IF seps = {} THEN <<SubSeq(s, from, Len(s))>>
    ELSE LET i == CHOOSE x \in seps : \A y \in seps : x <= y
         IN  <<SubSeq(s, from, i - 1)>> \o ElementsFrom(s, i + 1, seps \ {i})

\* strings.Split(s, "/"): the elements between the separators, empty ones kept.
SplitPath(s) == ElementsFrom(s, 1, Occurrences(s, "/"))

\* strings.Join(elems, sep).
RECURSIVE JoinWith(_, _)
JoinWith(elems, sep) ==
    IF elems = <<>> THEN ""
    ELSE IF Len(elems) = 1 THEN elems[1]
    ELSE elems[1] \o sep \o JoinWith(Tail(elems), sep)

----------------------------------------------------------------------------
(* Paths (path/filepath on a slash-separated system).                      *)

\* The element stack filepath.Clean builds: "" and "." are dropped, ".."
\* removes the element before it, or is dropped at the root, or is kept.
RECURSIVE CleanElems(_, _, _)
CleanElems(elems, stack, rooted) ==
    IF elems = <<>> THEN stack
    ELSE LET e == Head(elems)
             next ==
                 IF e = "" \/ e = "." THEN stack
                 ELSE IF e = ".."
                 THEN IF stack # <<>> /\ stack[Len(stack)] # ".."
                      THEN SubSeq(stack, 1, Len(stack) - 1)
                      ELSE IF rooted THEN stack
                      ELSE Append(stack, "..")
                 ELSE Append(stack, e)
         IN  CleanElems(Tail(elems), next, rooted)

\* filepath.Clean.
Clean(path) ==
    LET rooted == MatchAt(path, "/", 1)
        stack == CleanElems(SplitPath(path), <<>>, rooted)
    IN  IF rooted THEN "/" \o JoinWith(stack, "/")
        ELSE IF stack = <<>> THEN "."
        ELSE JoinWith(stack, "/")

\* filepath.Join: the non-empty elements joined by "/" and cleaned; "" if
\* every element is empty.
Join(elems) ==
    LET nonEmpty == SelectSeq(elems, LAMBDA e : e # "")
    IN  IF nonEmpty = <<>> THEN "" ELSE Clean(JoinWith(nonEmpty, "/"))

\* filepath.Dir of a cleaned path: the path without its last element.
Dir(path) ==
    LET i == LastIndex(path, "/")
    IN  IF i = 0 THEN "."
        ELSE IF i = 1 THEN "/"
        ELSE SubSeq(path, 1, i - 1)

\* filepath.Base of a cleaned path.
Base(path) == SubSeq(path, LastIndex(path, "/") + 1, Len(path))

----------------------------------------------------------------------------
(* The file system the os package acts on: a function from cleaned paths   *)
(* to entries.  A path outside its domain does not exist.                  *)

File(data) == [kind |-> "file", data |-> data]
Directory == [kind |-> "dir", data |-> ""]

Put(f, key, value) ==
    [k \in DOMAIN f \cup {key} |-> IF k = key THEN value ELSE f[k]]

Exists(f, path) == path \in DOMAIN f
IsDir(f, path) == path = "." \/ (Exists(f, path) /\ f[path].kind = "dir")
IsFile(f, path) == Exists(f, path) /\ f[path].kind = "file"

\* The errno texts a *fs.PathError ends in.
ENOENT == "no such file or directory"
ENOTDIR == "not a directory"
EISDIR == "is a directory"
EEXIST == "file exists"

\* os.MkdirAll(path): every missing directory down to path is created; an
\* element that exists and is no directory fails the call.  When path
\* itself is that element, the Stat of the fast path finds it and the error
\* is ENOTDIR on path; when it lies above, MkdirAll has recursed on the
\* parent with its trailing separator and returns the error of Mkdir on it,
\* EEXIST.
RECURSIVE MkdirAllFrom(_, _, _)
MkdirAllFrom(f, elems, k) ==
    IF k > Len(elems) THEN [fs |-> f, err |-> ""]
    ELSE LET p == JoinWith(SubSeq(elems, 1, k), "/")
         IN  IF p = "" THEN MkdirAllFrom(f, elems, k + 1)
             ELSE IF IsFile(f, p)
             THEN [fs |-> f,
                   err |-> IF k = Len(elems)
                           THEN "mkdir " \o p \o ": " \o ENOTDIR
                           ELSE "mkdir " \o p \o "/: " \o EEXIST]
             ELSE MkdirAllFrom(IF Exists(f, p) THEN f ELSE Put(f, p, Directory),
                               elems, k + 1)

MkdirAll(f, path) == MkdirAllFrom(f, SplitPath(path), 1)

\* The directories above a cleaned path: its prefixes ending before a "/".
Ancestors(path) ==
    {SubSeq(path, 1, i - 1) : i \in Occurrences(path, "/")} \ {""}

\* The errno of walking down to path, "" when every directory above it
\* exists: the first element on the way that is absent gives ENOENT, the
\* first that is a file ENOTDIR.
WalkErrno(f, path) ==
    LET broken == {a \in Ancestors(path) : ~IsDir(f, a)}
        first == CHOOSE a \in broken : \A b \in broken : Len(a) <= Len(b)
    IN  IF broken = {} THEN ""
        ELSE IF Exists(f, first) THEN ENOTDIR
        ELSE ENOENT

\* The errno of open(path, O_RDONLY), "" when it succeeds: a directory
\* opens like a file.
OpenErrno(f, path) ==
    LET above == WalkErrno(f, path)
    IN  IF above # "" THEN above
        ELSE IF ~Exists(f, path) THEN ENOENT
        ELSE ""

\* The errno of open(path, O_RDWR|O_CREATE|O_TRUNC), "" when it succeeds.
CreateErrno(f, path) ==
    LET above == WalkErrno(f, path)
    IN  IF above # "" THEN above
        ELSE IF IsDir(f, path) THEN EISDIR
        ELSE ""

\* The text of the *fs.PathError of a failed open.
OpenError(path, errno) == "open " \o path \o ": " \o errno

\* Whether os.Create(path) succeeds.
CanCreate(f, path) == CreateErrno(f, path) = ""

\* os.WriteFile(path, data).
WriteFile(f, path, data) ==
    IF CanCreate(f, path)
    THEN [fs |-> Put(f, path, File(data)), err |-> ""]
    ELSE [fs |-> f, err |-> OpenError(path, CreateErrno(f, path))]

----------------------------------------------------------------------------
(* generator.go                                                            *)

DefaultMissingIconSVG ==
    "<svg xmlns=\"http://www.w3.org/2000/svg\" viewBox=\"0 0 24 24\" fill=\"#fb2c36\"><path d=\"M17.5 2.5L23 12L17.5 21.5H6.5L1 12L6.5 2.5H17.5ZM11 15V17H13V15H11ZM11 7V13H13V7H11Z\"></path></svg>"

IconOutline == "outline"
IconSolid == "solid"
IconMini == "mini"
IconMicro == "micro"
IconTypes == {IconOutline, IconSolid, IconMini, IconMicro}

IconSet(name, type) == [Name |-> name, Type |-> type]

\* fmt.Sprintf("%s/%s", icon.Type, icon.Name)
IconKey(icon) == icon.Type \o "/" \o icon.Name

\* fmt.Sprintf("%s_%s.svg", icon.Type, icon.Name)
IconFilename(icon) == icon.Type \o "_" \o icon.Name \o ".svg"

\* Generator.getIconPath: a type outside the four cases leaves dir empty.
getIconPath(gen, icon) ==
    LET dir == CASE icon.Type = IconOutline -> "24/outline"
                 [] icon.Type = IconSolid -> "24/solid"
                 [] icon.Type = IconMini -> "20/solid"
                 [] icon.Type = IconMicro -> "16/solid"
                 [] OTHER -> ""
    IN  Join(<<gen.HeroiconsPath, "optimized", dir, icon.Name \o ".svg">>)

\* The text of the error of io.Copy between two files: the destination's
\* ReadFrom copies with copy_file_range and wraps its errno as a write error
\* on the destination.
CopyError(dest, errno) == "write " \o dest \o ": copy_file_range: " \o errno

\* A variant of copyIcon that removes the destination it created when the
\* copy fails.
copyIconAtomic(f, src, dest) ==
    IF OpenErrno(f, src) # ""
    THEN [fs |-> f, err |-> OpenError(src, OpenErrno(f, src))]
    ELSE IF ~CanCreate(f, dest)
    THEN [fs |-> f, err |-> OpenError(dest, CreateErrno(f, dest))]
    ELSE IF IsDir(f, src)
    THEN [fs |-> f, err |-> CopyError(dest, EISDIR)]
    ELSE [fs |-> Put(f, dest, File(f[src].data)), err |-> ""]

\* Generator.copyIcon: open the source, create (and truncate) the
\* destination, copy.  Copying from a directory fails after the destination
\* was created; nothing removes the destination then.
copyIcon(f, src, dest) ==
    IF OpenErrno(f, src) # ""
    THEN [fs |-> f, err |-> OpenError(src, OpenErrno(f, src))]
    ELSE IF ~CanCreate(f, dest)
    THEN [fs |-> f, err |-> OpenError(dest, CreateErrno(f, dest))]
    ELSE LET created == Put(f, dest, File(""))
         IN  IF IsDir(created, src)
             THEN [fs |-> created, err |-> CopyError(dest, EISDIR)]
             ELSE [fs |-> Put(created, dest, File(created[src].data)),
                   err |-> ""]

\* A variant of the loop that stops at the first request whose copy fails.
RECURSIVE CopyIconsUntilFailure(_, _, _, _)
CopyIconsUntilFailure(gen, iconsPath, k, acc) ==
    IF k > Len(gen.Icons) THEN acc
    ELSE LET icon == gen.Icons[k]
             copy == copyIcon(acc.fs, getIconPath(gen, icon),
                              Join(<<iconsPath, IconFilename(icon)>>))
         IN  IF copy.err # ""
             THEN [acc EXCEPT !.fs = copy.fs,
                              !.missingIcons = Append(@, IconKey(icon))]
             ELSE CopyIconsUntilFailure(gen, iconsPath, k + 1,
                      [acc EXCEPT !.fs = copy.fs,
                                  !.iconPaths = Put(@, IconKey(icon),
                                                    IconFilename(icon))])

\* The loop of Generate over g.Icons[k..]: acc holds the file system, the
\* missingIcons slice and the iconPaths map.
RECURSIVE CopyIcons(_, _, _, _)
CopyIcons(gen, iconsPath, k, acc) ==
    IF k > Len(gen.Icons) THEN acc
    ELSE LET icon == gen.Icons[k]
             srcPath == getIconPath(gen, icon)
             filename == IconFilename(icon)
             destPath == Join(<<iconsPath, filename>>)
             copy == copyIcon(acc.fs, srcPath, destPath)
         IN  IF copy.err # ""
             THEN CopyIcons(gen, iconsPath, k + 1,
                      [acc EXCEPT !.fs = copy.fs,
                                  !.missingIcons = Append(@, IconKey(icon))])
             ELSE CopyIcons(gen, iconsPath, k + 1,
                      [acc EXCEPT !.fs = copy.fs,
                                  !.iconPaths = Put(@, IconKey(icon), filename)])

EmptyMap == [k \in {} |-> ""]

\* The text providerTemplate starts with, whatever the data.
TemplatePackage == "icons"
TemplateHeader ==
    "// Code generated by heroicons generator; DO NOT EDIT.\npackage "
        \o TemplatePackage

NoProvider ==
    [written |-> FALSE, package |-> "", FailOnError |-> FALSE,
     iconPaths |-> EmptyMap]

\* What executing providerTemplate on the data writes: the package clause
\* is the template's literal text, and .PackageName is used nowhere in it.
ExecuteTemplate(data) ==
    [written |-> TRUE, package |-> TemplatePackage,
     FailOnError |-> data.FailOnError, iconPaths |-> data.IconPaths]

\* Generator.generateProvider.
generateProvider(f, gen, iconPaths, old) ==
    LET path == Join(<<gen.OutputPath, "provider.go">>)
        data == [PackageName |-> gen.PackageName, IconPaths |-> iconPaths,
                 FailOnError |-> gen.FailOnError]
    IN  IF ~CanCreate(f, path)
        THEN [fs |-> f, providerGo |-> old,
              err |-> OpenError(path, CreateErrno(f, path))]
        ELSE [fs |-> Put(f, path, File(TemplateHeader)),
              providerGo |-> ExecuteTemplate(data), err |-> ""]

\* Generator.Generate on file system f; old is the provider.go content
\* before the call.  The result holds the Generator after the call (its
\* MissingIconSVG defaulted), the file system, the artifact, the reported
\* keys and the returned error.
Generate(f, gen0, old) ==
    LET gen == IF gen0.MissingIconSVG = ""
               THEN [gen0 EXCEPT !.MissingIconSVG = DefaultMissingIconSVG]
               ELSE gen0
        iconsPath == Join(<<gen.OutputPath, "icons">>)
        mk == MkdirAll(f, iconsPath)
        missingIconPath == Join(<<iconsPath, "missing.svg">>)
        wr == WriteFile(mk.fs, missingIconPath, gen.MissingIconSVG)
        loop == CopyIcons(gen, iconsPath, 1,
                    [fs |-> wr.fs, missingIcons |-> <<>>,
                     iconPaths |-> EmptyMap])
        prov == generateProvider(loop.fs, gen, loop.iconPaths, old)
    IN  IF mk.err # ""
        THEN [g |-> gen, fs |-> mk.fs, providerGo |-> old, stdout |-> <<>>,
              returned |-> "failed to create output directory: " \o mk.err]
        ELSE IF wr.err # ""
        THEN [g |-> gen, fs |-> wr.fs, providerGo |-> old, stdout |-> <<>>,
              returned |-> "failed to write missing icon: " \o wr.err]
        ELSE IF prov.err # ""
        THEN [g |-> gen, fs |-> prov.fs, providerGo |-> old, stdout |-> <<>>,
              returned |-> "failed to generate provider: " \o prov.err]
        ELSE [g |-> gen, fs |-> prov.fs, providerGo |-> prov.providerGo,
              stdout |-> loop.missingIcons, returned |-> ""]

----------------------------------------------------------------------------
(* Class injection, the same statements in RenderIcon of heroicons.go and  *)
(* in RenderIcon of the generated provider.                                *)

\* A variant of InjectClass that always adds a new attribute to the root
\* tag, whether or not the markup has a class attribute.
InjectClassAlwaysNew(svg, class) ==
    IF class = "" THEN svg
    ELSE ReplaceFirst(svg, "<svg ", "<svg class=\"" \o class \o "\" ")

\* fmt.Sprintf("class=\"%s \"", class) replaces the first class=", or else
\* fmt.Sprintf("<svg class=\"%s\" ", class) replaces the first "<svg ".
InjectClass(svg, class) ==
    IF class = "" THEN svg
    ELSE IF Contains(svg, "class=\"")
    THEN ReplaceFirst(svg, "class=\"", "class=\"" \o class \o " ")
    ELSE ReplaceFirst(svg, "<svg ", "<svg class=\"" \o class \o "\" ")

----------------------------------------------------------------------------
(* The generated provider: providerTemplate compiled in the output root.   *)

\* //go:embed icons/*.svg: the regular files of <OutputPath>/icons whose name
\* ends in .svg, under the name icons/<file>.
EmbedFS(f, outputPath) ==
    LET dir == Join(<<outputPath, "icons">>)
        paths == {p \in DOMAIN f :
                     /\ IsFile(f, p)
                     /\ Dir(p) = dir
                     /\ HasSuffix(Base(p), ".svg")}
        names == {"icons/" \o Base(p) : p \in paths}
    IN  [n \in names |-> f[Join(<<outputPath, n>>)].data]

\* fs.ValidPath: no empty, "." or ".." element.
ValidPath(name) ==
    LET elems == SplitPath(name)
    IN  \A i \in 1..Len(elems) : elems[i] \notin {"", ".", ".."}

\* embed.FS.ReadFile.
ReadFile(embedded, name) ==
    IF ValidPath(name) /\ name \in DOMAIN embedded
    THEN [content |-> embedded[name], err |-> ""]
    ELSE [content |-> "", err |-> "open " \o name \o ": file does not exist"]

\* getMissingIcon of the template.
getMissingIcon(embedded) ==
    LET read == ReadFile(embedded, "icons/missing.svg")
    IN  IF read.err # "" THEN "" ELSE read.content

\* A variant of getIcon that ignores FailOnError and always falls back.
getIconAlwaysFallback(prov, embedded, name, iconType) ==
    LET key == iconType \o "/" \o name
    IN  IF key \notin DOMAIN prov.iconPaths
        THEN [svg |-> getMissingIcon(embedded), err |-> ""]
        ELSE LET read == ReadFile(embedded, "icons/" \o prov.iconPaths[key])
             IN  IF read.err # ""
                 THEN [svg |-> getMissingIcon(embedded), err |-> ""]
                 ELSE [svg |-> read.content, err |-> ""]

\* getIcon of the template; prov holds the baked-in FailOnError and
\* iconPaths.
getIcon(prov, embedded, name, iconType) ==
    LET key == iconType \o "/" \o name
    IN  IF key \notin DOMAIN prov.iconPaths
        THEN IF prov.FailOnError
             THEN [svg |-> "", err |-> "icon not found: " \o key]
             ELSE [svg |-> getMissingIcon(embedded), err |-> ""]
        ELSE LET filename == "icons/" \o prov.iconPaths[key]
                 read == ReadFile(embedded, filename)
             IN  IF read.err # ""
                 THEN IF prov.FailOnError
                      THEN [svg |-> "",
                            err |-> "failed to read icon " \o filename
                                        \o ": " \o read.err]
                      ELSE [svg |-> getMissingIcon(embedded), err |-> ""]
                 ELSE [svg |-> read.content, err |-> ""]

\* RenderIcon of the template.
ProviderRenderIcon(prov, embedded, name, iconType, class) ==
    LET got == getIcon(prov, embedded, name, iconType)
    IN  IF got.err # "" THEN [svg |-> "", err |-> got.err]
        ELSE [svg |-> InjectClass(got.svg, class), err |-> ""]

----------------------------------------------------------------------------
(* heroicons.go: the runtime library with a registered IconProvider.       *)

NotInitialized == "heroicons package not initialized with an IconProvider"

PlainSVG == "<svg xmlns=\"w3\" fill=\"none\"><path d=\"H\"/></svg>"
ClassedSVG == "<svg class=\"size-4\" xmlns=\"w3\"><path d=\"h\"/></svg>"
BareSVG == "<svg><path d=\"b\"/></svg>"
ChildClassSVG == "<svg xmlns=\"w3\"><g class=\"a\"/><g class=\"b\"/></svg>"
TwoSvgSVG == "<svg fill=\"none\"><svg x=\"1\"/></svg>"

\* IconProvider.GetIcon of the providers a consuming project registers:
\* "table" answers from a table and fails on any other icon, "lenient"
\* answers every icon.
GetIcon(p, name, iconType) ==
    IF p = "table"
    THEN CASE name = "home" /\ iconType = IconOutline ->
                  [svg |-> PlainSVG, err |-> ""]
           [] name = "home" /\ iconType = IconMicro ->
                  [svg |-> ClassedSVG, err |-> ""]
           [] name = "bare" /\ iconType = IconOutline ->
                  [svg |-> BareSVG, err |-> ""]
           [] name = "bare" /\ iconType = IconMicro ->
                  [svg |-> "", err |-> ""]
           [] OTHER ->
                  [svg |-> "", err |-> "icon not found: " \o iconType
                                           \o "/" \o name]
    ELSE CASE name = "home" /\ iconType = IconOutline ->
                  [svg |-> ChildClassSVG, err |-> ""]
           [] name = "home" /\ iconType = IconMicro ->
                  [svg |-> TwoSvgSVG, err |-> ""]
           [] OTHER -> [svg |-> DefaultMissingIconSVG, err |-> ""]

\* A variant of Initialize that keeps a provider already registered.
InitializeOnce(cur, p) == IF cur = "nil" THEN p ELSE cur

\* Initialize: the value of the package variable provider after the call,
\* cur being its value before.
Initialize(cur, p) == p

\* A variant of RenderIcon without the nil check.
RenderIconUnguarded(cur, name, iconType, class) ==
    LET got == GetIcon(cur, name, iconType)
    IN  IF got.err # ""
        THEN [svg |-> "", err |-> got.err, called |-> TRUE]
        ELSE [svg |-> InjectClass(got.svg, class), err |-> "",
              called |-> TRUE]

\* RenderIcon of heroicons.go, with cur the value of provider: the result,
\* and whether GetIcon was called.
RenderIcon(cur, name, iconType, class) ==
    IF cur = "nil"
    THEN [svg |-> "", err |-> NotInitialized, called |-> FALSE]
    ELSE LET got == GetIcon(cur, name, iconType)
         IN  IF got.err # ""
             THEN [svg |-> "", err |-> got.err, called |-> TRUE]
             ELSE [svg |-> InjectClass(got.svg, class), err |-> "",
                   called |-> TRUE]

----------------------------------------------------------------------------
(* The inputs of the generator: a source catalog laid out as               *)
(* <root>/optimized/<size>/<style>/<name>.svg, an output root that is      *)
(* absent, or holds an entry of another kind where Generate writes, or was *)
(* left by an earlier run, and the Generator structs a caller can build.   *)

MaxIcons == 2

HeroiconsPath == "heroicons"
OutputPath == "out"

HomeOutlineSVG == "<svg xmlns=\"w3\" fill=\"none\"><path d=\"H\"/></svg>"
LogoSVG == "<svg class=\"size-6\" xmlns=\"w3\"><path d=\"L\"/></svg>"
StraySVG == "<svg ><path d=\"20\"/></svg>"
CustomMissingSVG == "<svg xmlns=\"w3\"><path d=\"?\"/></svg>"

\* home (outline) is a file, user (micro) is a directory, bell (solid) does
\* not exist; brand/logo (outline) lies one directory deeper, and
\* 20/missing.svg lies beside the style directories.
Catalog ==
    [p \in {"heroicons", "heroicons/optimized", "heroicons/optimized/24",
            "heroicons/optimized/24/outline", "heroicons/optimized/24/solid",
            "heroicons/optimized/20", "heroicons/optimized/20/solid",
            "heroicons/optimized/16", "heroicons/optimized/16/solid",
            "heroicons/optimized/24/outline/brand",
            "heroicons/optimized/16/solid/user.svg",
            "heroicons/optimized/24/outline/home.svg",
            "heroicons/optimized/24/outline/brand/logo.svg",
            "heroicons/optimized/20/missing.svg"} |->
        CASE p = "heroicons/optimized/24/outline/home.svg" ->
                 File(HomeOutlineSVG)
          [] p = "heroicons/optimized/24/outline/brand/logo.svg" ->
                 File(LogoSVG)
          [] p = "heroicons/optimized/20/missing.svg" -> File(StraySVG)
          [] OTHER -> Directory]

\* The output root before any run: absent, or with a file where the icons
\* directory goes, or with a directory where missing.svg or provider.go goes.
FreshFileSystems ==
    {Catalog,
     Put(Put(Catalog, "out", Directory), "out/icons", File("")),
     Put(Put(Put(Catalog, "out", Directory), "out/icons", Directory),
         "out/icons/missing.svg", Directory),
     Put(Put(Catalog, "out", Directory), "out/provider.go", Directory)}

IconSets ==
    {IconSet("home", IconOutline), IconSet("user", IconMicro),
     IconSet("bell", IconSolid), IconSet("brand/logo", IconOutline),
     IconSet("/../missing", IconMini)}

IconLists(n) == UNION {[1..k -> IconSets] : k \in 0..n}

GeneratorsWith(lists) ==
    {[HeroiconsPath |-> HeroiconsPath, OutputPath |-> OutputPath,
      PackageName |-> pkg, Icons |-> icons, FailOnError |-> fail,
      MissingIconSVG |-> missing] :
        pkg \in {"icons", "myicons"}, icons \in lists,
        fail \in BOOLEAN, missing \in {"", CustomMissingSVG}}

Generators == GeneratorsWith(IconLists(MaxIcons))

ZeroGenerator ==
    [HeroiconsPath |-> "", OutputPath |-> "", PackageName |-> "",
     Icons |-> <<>>, FailOnError |-> FALSE, MissingIconSVG |-> ""]

\* What an earlier run of the generate program left: Generate with a
\* single request or none, on an output root no run has written to.
EarlierRuns ==
    {Generate(f, gen, NoProvider) :
        f \in FreshFileSystems, gen \in GeneratorsWith(IconLists(1))}

InitialOutputs ==
    {[fs |-> f, providerGo |-> NoProvider] : f \in FreshFileSystems}
        \cup {[fs |-> r.fs, providerGo |-> r.providerGo] : r \in EarlierRuns}

\* The output roots a provider is compiled from: those Generate left when
\* it returned nil on an absent output root.
GeneratedOutputs ==
    {[fs |-> r.fs, providerGo |-> r.providerGo] :
        r \in {x \in {Generate(Catalog, gen, NoProvider) : gen \in Generators} :
                  x.returned = ""}}

NotCalled == "<not called>"
NoRender == [called |-> FALSE, name |-> "", iconType |-> "", class |-> "",
             svg |-> "", err |-> ""]
NoCall == [op |-> "", arg |-> "", name |-> "", iconType |-> "",
           class |-> "", svg |-> "", err |-> ""]

----------------------------------------------------------------------------
(* The generate program: one process that builds a Generator and calls     *)
(* Generate once (README, "Create Your Icon Generator"); what earlier      *)
(* processes wrote is in the file system it starts on.                     *)

InitLib ==
    /\ provider = "nil"
    /\ initLog = <<>>
    /\ getIconCalls = 0
    /\ lastCall = NoCall

Init ==
    /\ \E o \in InitialOutputs : fs = o.fs /\ providerGo = o.providerGo
    /\ before = fs
    /\ g = ZeroGenerator
    /\ returned = NotCalled
    /\ stdout = <<>>
    /\ rendered = NoRender
    /\ InitLib

GenerateCall ==
    /\ returned = NotCalled
    /\ \E gen \in Generators :
        LET r == Generate(fs, gen, providerGo)
        IN  /\ fs' = r.fs
            /\ before' = fs
            /\ g' = r.g
            /\ returned' = r.returned
            /\ stdout' = r.stdout
            /\ providerGo' = r.providerGo
    /\ UNCHANGED <<rendered, provider, initLog, getIconCalls, lastCall>>

Next == GenerateCall

Spec == Init /\ [][Next]_vars

----------------------------------------------------------------------------
(* The consuming program: the provider compiled from a generated output    *)
(* root, rendering icons.                                                  *)

RenderNames == {"home", "user", "bell", "/../missing"}
Classes == {"", "w-6 h-6"}

InitProvider ==
    /\ \E o \in GeneratedOutputs : fs = o.fs /\ providerGo = o.providerGo
    /\ before = fs
    /\ g = ZeroGenerator
    /\ returned = NotCalled
    /\ stdout = <<>>
    /\ rendered = NoRender
    /\ InitLib

\* var iconFS embed.FS of the provider compiled in the output root.
iconFS == EmbedFS(fs, OutputPath)

RenderIconCall ==
    /\ providerGo.written
    /\ LET embedded == iconFS
       IN  \E name \in RenderNames, iconType \in IconTypes, class \in Classes :
               LET r == ProviderRenderIcon(providerGo, embedded, name,
                                           iconType, class)
               IN  rendered' = [called |-> TRUE, name |-> name,
                                iconType |-> iconType, class |-> class,
                                svg |-> r.svg, err |-> r.err]
    /\ UNCHANGED <<genVars, provider, initLog, getIconCalls, lastCall>>

NextProvider == RenderIconCall

SpecProvider == InitProvider /\ [][NextProvider]_vars

----------------------------------------------------------------------------
(* A program using heroicons.go: any sequence of Initialize and RenderIcon *)
(* calls.                                                                  *)

MaxInits == 2
MaxCalls == 2

Providers == {"nil", "table", "lenient"}
LibNames == {"home", "bare", "bell"}
LibTypes == {IconOutline, IconMicro}
LibClasses == {"", "extra", "w-6 h-6"}

InitLibrary ==
    /\ fs = Catalog
    /\ before = Catalog
    /\ g = ZeroGenerator
    /\ returned = NotCalled
    /\ stdout = <<>>
    /\ providerGo = NoProvider
    /\ rendered = NoRender
    /\ InitLib

InitializeCall ==
    /\ Len(initLog) < MaxInits
    /\ \E p \in Providers :
        /\ provider' = Initialize(provider, p)
        /\ initLog' = Append(initLog, p)
        /\ lastCall' = [NoCall EXCEPT !.op = "Initialize", !.arg = p]
    /\ UNCHANGED <<genVars, rendered, getIconCalls>>

LibRenderIconCall ==
    /\ getIconCalls < MaxCalls
    /\ \E name \in LibNames, iconType \in LibTypes, class \in LibClasses :
        LET r == RenderIcon(provider, name, iconType, class)
        IN  /\ lastCall' = [op |-> "RenderIcon", arg |-> "", name |-> name,
                            iconType |-> iconType, class |-> class,
                            svg |-> r.svg, err |-> r.err]
            /\ getIconCalls' = IF r.called THEN getIconCalls + 1
                               ELSE getIconCalls
    /\ UNCHANGED <<genVars, rendered, provider, initLog>>

NextLibrary == InitializeCall \/ LibRenderIconCall

SpecLibrary == InitLibrary /\ [][NextLibrary]_vars

----------------------------------------------------------------------------
(* Properties of the generator (Spec).                                     *)

Succeeded == returned = ""
Requests == 1..Len(g.Icons)
IconsDir == Join(<<g.OutputPath, "icons">>)
MissingIconPath == Join(<<IconsDir, "missing.svg">>)
ProviderPath == Join(<<g.OutputPath, "provider.go">>)
SrcOf(k) == getIconPath(g, g.Icons[k])
DestOf(k) == Join(<<IconsDir, IconFilename(g.Icons[k])>>)
KeyOf(k) == IconKey(g.Icons[k])
Reported(key) == \E i \in 1..Len(stdout) : stdout[i] = key
Registered(key) == key \in DOMAIN providerGo.iconPaths
SameAsBefore(p) ==
    /\ Exists(fs, p) <=> Exists(before, p)
    /\ Exists(fs, p) => fs[p] = before[p]

\* C3 as claimed: after Generate, every request of a valid variant whose
\* source file exists has its key variant/name in the lookup table with the
\* value variant_name.svg, and icons/variant_name.svg holds the bytes of the
\* source file.
C3_AsClaimed ==
    Succeeded =>
        \A k \in Requests :
            (g.Icons[k].Type \in IconTypes /\ IsFile(fs, SrcOf(k))) =>
                /\ Registered(KeyOf(k))
                /\ providerGo.iconPaths[KeyOf(k)] = IconFilename(g.Icons[k])
                /\ IsFile(fs, DestOf(k))
                /\ fs[DestOf(k)].data = fs[SrcOf(k)].data

\* C4: in a run whose fallback and artifact are written, a request whose
\* source file does not exist is not registered in the lookup table and is
\* reported missing (once per such request), every later request is still
\* processed (registered or reported), and Generate returns nil; Generate
\* returns an error only when the fallback or the artifact is not written.
C4_MissingSourceIsNotFatal ==
    /\ (returned # NotCalled /\ IsFile(fs, MissingIconPath)
            /\ IsFile(fs, ProviderPath)) => Succeeded
    /\ Succeeded =>
        \A k \in Requests :
            ~Exists(fs, SrcOf(k)) =>
                /\ ~Registered(KeyOf(k))
                /\ Reported(KeyOf(k))
                /\ Cardinality({i \in 1..Len(stdout) : stdout[i] = KeyOf(k)})
                       = Cardinality({j \in Requests : KeyOf(j) = KeyOf(k)})
                /\ \A j \in Requests :
                       j > k => (Registered(KeyOf(j)) \/ Reported(KeyOf(j)))

\* A run that reports bell (no source) and then copies and registers home.
C4_Witness ==
    /\ Succeeded
    /\ g.Icons = <<IconSet("bell", IconSolid), IconSet("home", IconOutline)>>
    /\ stdout = <<"solid/bell">>
    /\ DOMAIN providerGo.iconPaths = {"outline/home"}
    /\ fs["out/icons/outline_home.svg"].data = HomeOutlineSVG

\* C7 as claimed: the package clause of the provider.go Generate writes is
\* the configured PackageName.
C7_AsClaimed ==
    Succeeded => providerGo.package = g.PackageName

\* C8 as claimed: the icon files the artifact embeds, other than the
\* fallback, are exactly the icons the most recent run requested and copied.
C8_AsClaimed ==
    Succeeded =>
        DOMAIN iconFS \ {"icons/missing.svg"}
            = {"icons/" \o providerGo.iconPaths[key] :
                   key \in DOMAIN providerGo.iconPaths}

\* C9 as claimed: no request's destination is icons/missing.svg, so after
\* Generate that file holds the fallback content and no lookup-table value
\* refers to it.
C9_AsClaimed ==
    Succeeded =>
        /\ \A k \in Requests : DestOf(k) # MissingIconPath
        /\ fs[MissingIconPath].data = g.MissingIconSVG
        /\ \A key \in DOMAIN providerGo.iconPaths :
               Join(<<IconsDir, providerGo.iconPaths[key]>>) # MissingIconPath

\* C10 as claimed: a request whose copy fails leaves its destination as it
\* was, so every file icons/variant_name.svg present after Generate has the
\* full content of its source.
C10_AsClaimed ==
    Succeeded =>
        \A k \in Requests :
            /\ Reported(KeyOf(k)) => SameAsBefore(DestOf(k))
            /\ IsFile(fs, DestOf(k)) =>
                   (IsFile(fs, SrcOf(k))
                        /\ fs[DestOf(k)].data = fs[SrcOf(k)].data)

\* Whether request j opens its source and creates its destination.  No
\* directory is made or removed after the fallback is written, so what can
\* be created at the end of the run could be created during it.
Creates(j) == Exists(fs, SrcOf(j)) /\ CanCreate(fs, DestOf(j))

\* C10, amended: a request whose copy fails because the source cannot be
\* opened or the destination cannot be created changes nothing (its
\* destination is as before the run unless it is the fallback file or another
\* request writes it); a request whose source opens but cannot be read (a
\* directory) is reported, not registered, and leaves its destination
\* created and empty, unless a later request rewrote the file.
C10_Amended ==
    Succeeded =>
        \A k \in Requests :
            /\ ~Creates(k) =>
                   \/ SameAsBefore(DestOf(k))
                   \/ DestOf(k) = MissingIconPath
                   \/ \E j \in Requests : DestOf(j) = DestOf(k) /\ Creates(j)
            /\ (Creates(k) /\ IsDir(fs, SrcOf(k))) =>
                   /\ Reported(KeyOf(k))
                   /\ ~Registered(KeyOf(k))
                   /\ IsFile(fs, DestOf(k))
                   /\ \/ fs[DestOf(k)].data = ""
                      \/ \E j \in Requests :
                             /\ j > k
                             /\ DestOf(j) = DestOf(k)
                             /\ IsFile(fs, SrcOf(j))
                             /\ fs[DestOf(k)].data = fs[SrcOf(j)].data

\* A run on an absent output root that requested user (micro), whose source
\* is a directory, and bell (solid), which has none: an empty
\* micro_user.svg is left, nothing is left for bell.
C10_Witness ==
    /\ Succeeded
    /\ g.Icons = <<IconSet("user", IconMicro), IconSet("bell", IconSolid)>>
    /\ ~Exists(before, "out")
    /\ stdout = <<"micro/user", "solid/bell">>
    /\ fs["out/icons/micro_user.svg"] = File("")
    /\ ~Exists(fs, "out/icons/solid_bell.svg")

----------------------------------------------------------------------------
(* Properties of the generated provider (SpecProvider).                    *)

RenderedKey == rendered.iconType \o "/" \o rendered.name

\* The content of <OutputPath>/icons/missing.svg, which the provider embeds.
EmbeddedFallback == fs[Join(<<OutputPath, "icons", "missing.svg">>)].data

\* C1: RenderIcon with a (name, variant) whose key variant/name is not in the
\* lookup table returns, when FailOnError is false, the embedded fallback
\* markup (carrying the class when one is given) and a nil error, and when
\* FailOnError is true, empty markup and the error "icon not found: <key>".
C1_UnknownKey ==
    (rendered.called /\ RenderedKey \notin DOMAIN providerGo.iconPaths) =>
        IF providerGo.FailOnError
        THEN /\ rendered.svg = ""
             /\ rendered.err = "icon not found: " \o RenderedKey
        ELSE /\ rendered.err = ""
             /\ rendered.class = "" => rendered.svg = EmbeddedFallback
             /\ rendered.class # "" =>
                    rendered.svg = InjectClass(EmbeddedFallback, rendered.class)

\* bell (solid) rendered without a class by a provider generated with
\* FailOnError false, a custom fallback and home (outline) in its table.
C1_Witness ==
    /\ rendered.called
    /\ rendered.name = "bell" /\ rendered.iconType = IconSolid
    /\ rendered.class = ""
    /\ ~providerGo.FailOnError
    /\ DOMAIN providerGo.iconPaths = {"outline/home"}
    /\ rendered.svg = CustomMissingSVG
    /\ rendered.err = ""

----------------------------------------------------------------------------
(* Properties of the runtime library (SpecLibrary).                        *)

ClassAttr == "class=\""

\* s with text inserted after its first n characters.
InsertedAfter(s, n, text) ==
    SubSeq(s, 1, n) \o text \o SubSeq(s, n + 1, Len(s))

\* The first position at which token occurs in s is i.
FirstAt(s, token, i) ==
    MatchAt(s, token, i) /\ \A j \in 1..(i - 1) : ~MatchAt(s, token, j)

Occurs(s, token) == \E i \in 1..Len(s) : MatchAt(s, token, i)

\* The markup the registered provider returned to the last RenderIcon call.
ProvidedMarkup == GetIcon(provider, lastCall.name, lastCall.iconType).svg

InjectionMade ==
    /\ lastCall.op = "RenderIcon"
    /\ provider # "nil"
    /\ lastCall.err = ""
    /\ lastCall.class # ""

\* C2 as claimed: for every markup and non-empty class one substitution is
\* made: the class and a space go inside the quotes of the first class="
\* attribute, and without such an attribute class="<class>" goes right after
\* the opening token <svg of the root tag.
C2_AsClaimed ==
    InjectionMade =>
        IF Occurs(ProvidedMarkup, ClassAttr)
        THEN \E i \in 1..Len(ProvidedMarkup) :
                 /\ FirstAt(ProvidedMarkup, ClassAttr, i)
                 /\ lastCall.svg = InsertedAfter(ProvidedMarkup,
                                       i + Len(ClassAttr) - 1,
                                       lastCall.class \o " ")
        ELSE \E i \in 1..Len(ProvidedMarkup) :
                 /\ FirstAt(ProvidedMarkup, "<svg", i)
                 /\ lastCall.svg = InsertedAfter(ProvidedMarkup, i + 3,
                                       " class=\"" \o lastCall.class \o "\"")

\* C2, amended: at most one substitution is made, at the first match: in a
\* markup with a class=" attribute the class and a space go inside its
\* quotes; otherwise, in a markup that contains "<svg " (the token followed
\* by a space), class="<class>" goes right after the first <svg; any other
\* markup is returned unchanged.
C2_Amended ==
    InjectionMade =>
        IF Occurs(ProvidedMarkup, ClassAttr)
        THEN \E i \in 1..Len(ProvidedMarkup) :
                 /\ FirstAt(ProvidedMarkup, ClassAttr, i)
                 /\ lastCall.svg = InsertedAfter(ProvidedMarkup,
                                       i + Len(ClassAttr) - 1,
                                       lastCall.class \o " ")
        ELSE IF Occurs(ProvidedMarkup, "<svg ")
        THEN \E i \in 1..Len(ProvidedMarkup) :
                 /\ FirstAt(ProvidedMarkup, "<svg ", i)
                 /\ lastCall.svg = InsertedAfter(ProvidedMarkup, i + 3,
                                       " class=\"" \o lastCall.class \o "\"")
        ELSE lastCall.svg = ProvidedMarkup

\* A markup with two class=" attributes, neither on the root tag, rendered
\* with the class extra: only the first attribute gains it.
C2_Witness ==
    /\ InjectionMade
    /\ ProvidedMarkup = ChildClassSVG
    /\ lastCall.class = "extra"
    /\ lastCall.svg
           = "<svg xmlns=\"w3\"><g class=\"extra a\"/><g class=\"b\"/></svg>"

\* C5: a RenderIcon call made before any Initialize call returns empty
\* markup and the "not initialized" error, and no provider's GetIcon has
\* been called.
C5_RenderBeforeInitialize ==
    (lastCall.op = "RenderIcon" /\ initLog = <<>>) =>
        /\ lastCall.svg = ""
        /\ lastCall.err = NotInitialized
        /\ getIconCalls = 0

C5_Witness ==
    /\ lastCall.op = "RenderIcon"
    /\ initLog = <<>>
    /\ lastCall.name = "home"
    /\ lastCall.class = "w-6 h-6"
    /\ lastCall.err = NotInitialized

\* C6 as claimed: after the first Initialize call the reference RenderIcon
\* reads is never changed or cleared.
C6_AsClaimed ==
    initLog # <<>> => provider = initLog[1]

\* C6, amended: RenderIcon never changes the reference, and every
\* Initialize call sets it to its argument, so the reference is always the
\* argument of the most recent Initialize call (nil before the first): a
\* later Initialize replaces it, and Initialize(nil) clears it.
C6_Amended ==
    provider = IF initLog = <<>> THEN "nil" ELSE initLog[Len(initLog)]

\* Two Initialize calls with different providers, then a RenderIcon call
\* answered by the second.
C6_Witness ==
    /\ initLog = <<"table", "lenient">>
    /\ provider = "lenient"
    /\ lastCall.op = "RenderIcon"
    /\ lastCall.name = "bell"
    /\ lastCall.svg = DefaultMissingIconSVG

====
